---- MODULE Spec2Model ----
(***************************************************************************)
(* The live measurement session engine of no-js-speedtest: the registry   *)
(* of sessions (session.rs, AppState), the push channel between the       *)
(* producers and the held-open response (StreamingBody), the start route  *)
(* with its timer task (routes.rs) and the download route with its        *)
(* measurement task (download.rs).                                        *)
(*                                                                         *)
(* Every registry operation is one atomic step (DashMap serialises the    *)
(* accesses to an entry); every await on the channel is a point where a   *)
(* task can be suspended and other tasks run.  Readings of the clock      *)
(* (Instant::now, elapsed) are inputs drawn from small sets.              *)
(***************************************************************************)
EXTENDS Integers, Sequences, FiniteSets, TLC

\* ------------------------------------------------------------------ bounds

\* Largest sequence number (query parameter i) a download request carries.
MaxSeq == 1
\* Capacity of the push channel (mpsc::channel(128) in the code).
Capacity == 2

\* Largest sequence number of a chunk whose progress fragment a client follows.
MaxCounter == 40

\* The session ids index() draws.
Ids == {"a"}
\* The start requests a client issues for one session id.
StartTasks == {1, 2}
\* The download requests a client issues for one session id.
DownTasks == {1, 2}

\* ------------------------------------------------------- f64 arithmetic
\* An f64 is modelled exactly, as a fraction <<n, d>> in lowest terms with
\* d > 0; <<1, 0>> and <<-1, 0>> are the infinities and <<0, 0>> is NaN.

Abs(n) == IF n < 0 THEN -n ELSE n

Sign(n) == IF n < 0 THEN -1 ELSE IF n = 0 THEN 0 ELSE 1

RECURSIVE GCD(_, _)
GCD(a, b) == IF b = 0 THEN a ELSE GCD(b, a % b)

Norm(n, d) ==
    LET g == GCD(Abs(n), d)
    IN  IF n = 0 THEN <<0, 1>> ELSE <<Sign(n) * (Abs(n) \div g), d \div g>>

F(n) == <<n, 1>>

NaN == <<0, 0>>

IsNaN(x) == x = NaN

IsFinite(x) == x[2] # 0

FAdd(a, b) ==
    IF IsNaN(a) \/ IsNaN(b) THEN NaN
    ELSE IF ~IsFinite(a) /\ ~IsFinite(b) THEN (IF a = b THEN a ELSE NaN)
    ELSE IF ~IsFinite(a) THEN a
    ELSE IF ~IsFinite(b) THEN b
    ELSE Norm(a[1] * b[2] + b[1] * a[2], a[2] * b[2])

FNeg(a) == <<-a[1], a[2]>>

FSub(a, b) == FAdd(a, FNeg(b))

FMul(a, b) ==
    IF IsNaN(a) \/ IsNaN(b) THEN NaN
    ELSE IF ~IsFinite(a) \/ ~IsFinite(b)
         THEN (IF a[1] = 0 \/ b[1] = 0 THEN NaN ELSE <<Sign(a[1]) * Sign(b[1]), 0>>)
    ELSE Norm(a[1] * b[1], a[2] * b[2])

FDiv(a, b) ==
    IF IsNaN(a) \/ IsNaN(b) THEN NaN
    ELSE IF ~IsFinite(b) THEN (IF ~IsFinite(a) THEN NaN ELSE <<0, 1>>)
    ELSE IF b[1] = 0 THEN (IF a[1] = 0 THEN NaN ELSE <<Sign(a[1]), 0>>)
    ELSE IF ~IsFinite(a) THEN <<Sign(a[1]) * Sign(b[1]), 0>>
    ELSE Norm(Sign(b[1]) * a[1] * b[2], a[2] * Abs(b[1]))

\* a >= b and a < b on f64: every comparison with NaN is false.
FGe(a, b) ==
    /\ ~IsNaN(a) /\ ~IsNaN(b)
    /\ IF IsFinite(a) /\ IsFinite(b) THEN a[1] * b[2] >= b[1] * a[2]
       ELSE IF ~IsFinite(a) THEN (a[1] > 0 \/ a = b)
       ELSE b[1] < 0

FLt(a, b) == ~IsNaN(a) /\ ~IsNaN(b) /\ ~FGe(a, b)

\* `x as u64` for a finite x or NaN: truncation toward zero; NaN and negatives
\* give 0.
AsU64(x) == IF IsNaN(x) \/ x[1] <= 0 THEN 0 ELSE x[1] \div x[2]

\* The digits format!("{:.p}", x) prints for a finite x >= 0, as the integer
\* x * 10^p rounded to nearest, ties to even.
RoundHalfEven(x, scale) ==
    LET n == x[1] * scale
        q == n \div x[2]
        r == n % x[2]
    IN  IF 2 * r < x[2] THEN q
        ELSE IF 2 * r > x[2] THEN q + 1
        ELSE IF q % 2 = 0 THEN q ELSE q + 1

\* ------------------------------------------------------------- utils.rs

calculate_bps(duration, size) == FMul(FDiv(F(size), duration), F(8))

calculate_bandwidth_weight(duration, size) == FMul(F(size \div 1000000), duration)

SPEED_SUFFIX == <<" bps", " Kbps", " Mbps", " Gbps", " Tbps", " Pbps", " Ebps", " Zbps", " Ybps">>

\* The loop of bps_to_string: <<scaled speed, order_of_magnitude>>.
RECURSIVE ScaleSpeed(_, _)
ScaleSpeed(speed, order_of_magnitude) ==
    IF FGe(speed, F(1000))
    THEN ScaleSpeed(FDiv(speed, F(1000)), order_of_magnitude + 1)
    ELSE <<speed, order_of_magnitude>>

\* The match on the scaled value: two decimals under 10, one under 100, else
\* the value as an integer.  The text is kept as its digits and their count
\* of decimals.
FormatScaled(x) ==
    IF FGe(x, F(0)) /\ FLt(x, F(10)) THEN [digits |-> RoundHalfEven(x, 100), decimals |-> 2]
    ELSE IF FGe(x, F(10)) /\ FLt(x, F(100)) THEN [digits |-> RoundHalfEven(x, 10), decimals |-> 1]
    ELSE [digits |-> AsU64(x), decimals |-> 0]

bps_to_string(speed) ==
    LET s == ScaleSpeed(speed, 0)
        t == FormatScaled(s[1])
    IN  [digits |-> t.digits, decimals |-> t.decimals, suffix |-> SPEED_SUFFIX[s[2] + 1]]

\* The loop of bps_to_string comes to an end: speed >= 1000 stays true for
\* ever for +inf only (NaN compares false, every finite value shrinks).
LoopEnds(speed) == speed # <<1, 0>>

\* The same loop for a rate x * 1000^e with x >= 1 or e = 0, which reaches
\* beyond the integers of the model: while e > 0 the value is >= 1000, and a
\* division by 1000 lowers e by one.
RECURSIVE ScaleRate(_, _, _)
ScaleRate(x, e, order_of_magnitude) ==
    IF e > 0 THEN ScaleRate(x, e - 1, order_of_magnitude + 1)
    ELSE ScaleSpeed(x, order_of_magnitude)

\* SPEED_SUFFIX[order_of_magnitude] is inside the array.
SuffixInRange(order_of_magnitude) == order_of_magnitude + 1 \in DOMAIN SPEED_SUFFIX

\* bps_to_string of the rate x * 1000^e, for a loop that ends inside the array.
RateToString(x, e) ==
    LET s == ScaleRate(x, e, 0)
        t == FormatScaled(s[1])
    IN  [digits |-> t.digits, decimals |-> t.decimals, suffix |-> SPEED_SUFFIX[s[2] + 1]]

seconds_to_string(latency) ==
    LET latency_ms == FMul(latency, F(1000))
        t == FormatScaled(latency_ms)
    IN  [digits |-> t.digits, decimals |-> t.decimals, suffix |-> "ms"]

\* ---------------------------------------------------------- download.rs

\* A schedule that keeps growing by 10,000,000 per chunk.
next_size_uncapped(counter) == (counter + 2) * 10000000

\* The size the progress fragment advertises for the next chunk.
next_size(counter) ==
    CASE counter = 0 -> 20000000
      [] counter = 1 -> 30000000
      [] counter = 2 -> 40000000
      [] counter = 3 -> 50000000
      [] counter = 4 -> 60000000
      [] counter = 5 -> 70000000
      [] counter = 6 -> 80000000
      [] counter = 7 -> 90000000
      [] OTHER -> 100000000

\* RANDOM_BITMAP: 100,000,000 random bytes encoded by BmpEncoder as a 5,000 x
\* 5,000 Rgba8 bitmap, whose file header and info header take 14 + 108 bytes.
RANDOM_BITMAP_len == 100000000 + 14 + 108

\* RANDOM_BITMAP.get().unwrap().slice(0..size): Bytes::slice panics when the
\* range ends beyond the buffer.
SliceInRange(size) == size <= RANDOM_BITMAP_len

\* ------------------------------------------------------------- inputs

\* The inputs keep every sample finite and its weight positive: a chunk of at
\* least 1,000,000 bytes, a positive time for it and a timestamp not after the
\* arrival of the request.
\* Byte counts (query parameter size) of a download request.
Sizes == {1250000, 2500000}
\* instant.elapsed(): the seconds a chunk took.
ChunkElapsed == {F(1)}
\* start.elapsed() when a chunk is measured.
SinceStart == {F(1)}
\* <<duration, file_size>> of an upload: start.elapsed() after the last chunk
\* of the file, and the bytes received.
UploadDurations == {F(0), F(1)}

UploadSizes == {1250000}

\* <<start.elapsed(), ts>> when a download request arrives: the seconds since
\* the test started and the timestamp the client echoes.
LatencyInputs == {<<F(1), <<49, 50>>>>}

\* ------------------------------------------------------------ session.rs

\* enum SessionState.  The field start of Downloading is left out: what the
\* code reads from it, start.elapsed(), is an input of the step that reads it.
Start == [tag |-> "Start"]

Downloading(counter, bandwidth_average, bandwidth_total_weights, latency_average, latency_total_weights) ==
    [tag |-> "Downloading",
     counter |-> counter,
     bandwidth_average |-> bandwidth_average,
     bandwidth_total_weights |-> bandwidth_total_weights,
     latency_average |-> latency_average,
     latency_total_weights |-> latency_total_weights]

End == [tag |-> "End"]

None == [some |-> FALSE]

Some(v) == [some |-> TRUE, val |-> v]

IsStart(c, id) == id \in DOMAIN c /\ c[id].state.tag = "Start"

IsDownloading(c, id) == id \in DOMAIN c /\ c[id].state.tag = "Downloading"

IsEnd(c, id) == id \in DOMAIN c /\ c[id].state.tag = "End"

\* AppState::insert, its effect on the registry c.
Insert(c, id) ==
    [i \in DOMAIN c \cup {id} |-> IF i = id THEN [state |-> Start] ELSE c[i]]

\* start_download as main.rs has it, without the check for Start.
StartDownloadAnyState(c, id) ==
    IF id \in DOMAIN c
    THEN [conn |-> [c EXCEPT ![id].state = Downloading(0, F(0), F(0), F(0), F(0))],
          ret |-> Some("sender")]
    ELSE [conn |-> c, ret |-> None]

\* start_download that hands out the sender and leaves the state in Start.
StartDownloadNoTransition(c, id) ==
    IF IsStart(c, id) THEN [conn |-> c, ret |-> Some("sender")] ELSE [conn |-> c, ret |-> None]

\* AppState::start_download: the registry after the call, and what it returns.
StartDownload(c, id) ==
    IF IsStart(c, id)
    THEN [conn |-> [c EXCEPT ![id].state = Downloading(0, F(0), F(0), F(0), F(0))],
          ret |-> Some("sender")]
    ELSE [conn |-> c, ret |-> None]

\* measure_download_latency without the comparison of the sequence number.
MeasureLatencyNoGuard(c, id, elapsed, timestamp, counter) ==
    IF IsDownloading(c, id)
    THEN LET s == c[id].state
             latency == FDiv(FSub(elapsed, timestamp), F(2))
             new_weights == FAdd(s.latency_total_weights, F(1))
             new_average == FDiv(FAdd(FMul(s.latency_average, s.latency_total_weights), latency),
                                 new_weights)
         IN  [c EXCEPT ![id].state =
                 Downloading(counter, s.bandwidth_average, s.bandwidth_total_weights,
                             new_average, new_weights)]
    ELSE c

\* AppState::measure_download_latency; elapsed is start.elapsed().
MeasureLatency(c, id, elapsed, timestamp, counter) ==
    IF IsDownloading(c, id) /\ counter >= c[id].state.counter
    THEN LET s == c[id].state
             latency == FDiv(FSub(elapsed, timestamp), F(2))
             new_weights == FAdd(s.latency_total_weights, F(1))
             new_average == FDiv(FAdd(FMul(s.latency_average, s.latency_total_weights), latency),
                                 new_weights)
         IN  [c EXCEPT ![id].state =
                 Downloading(counter, s.bandwidth_average, s.bandwidth_total_weights,
                             new_average, new_weights)]
    ELSE c

\* The update of the running weighted average in measure_download_bandwidth:
\* <<new_average, new_weights>> from the accumulator <<average, total_weights>>
\* and a sample speed of weight weight.
BandwidthFold(average, total_weights, speed, weight) ==
    LET new_weights == FAdd(total_weights, weight)
        new_average == FDiv(FAdd(FMul(average, total_weights), FMul(speed, weight)),
                            new_weights)
    IN  <<new_average, new_weights>>

\* The body of measure_download_bandwidth for a session in Downloading, whose
\* state is s: the new state and the strings returned.
BandwidthSample(s, chunk, size, since) ==
    LET speed == calculate_bps(chunk, size)
        weight == calculate_bandwidth_weight(since, size)
        new == BandwidthFold(s.bandwidth_average, s.bandwidth_total_weights, speed, weight)
        new_average == new[1]
        new_weights == new[2]
    IN  [state |-> Downloading(s.counter, new_average, new_weights,
                               s.latency_average, s.latency_total_weights),
         ret |-> Some([download_speed |-> bps_to_string(new_average),
                       download_latency |-> seconds_to_string(s.latency_average)])]

\* measure_download_bandwidth that hands out the sender for any session it
\* finds, as get_if_download would without its check of the state.
MeasureBandwidthAnyState(c, id, chunk, size, since) ==
    IF IsDownloading(c, id)
    THEN LET r == BandwidthSample(c[id].state, chunk, size, since)
         IN  [conn |-> [c EXCEPT ![id].state = r.state], ret |-> r.ret]
    ELSE IF id \in DOMAIN c
    THEN [conn |-> c, ret |-> Some([download_speed |-> bps_to_string(F(0)),
                                    download_latency |-> seconds_to_string(F(0))])]
    ELSE [conn |-> c, ret |-> None]

\* AppState::measure_download_bandwidth; chunk is instant.elapsed() and since
\* is start.elapsed().
MeasureBandwidth(c, id, chunk, size, since) ==
    IF IsDownloading(c, id)
    THEN LET r == BandwidthSample(c[id].state, chunk, size, since)
         IN  [conn |-> [c EXCEPT ![id].state = r.state], ret |-> r.ret]
    ELSE [conn |-> c, ret |-> None]

\* stop_download that returns the values and leaves the state in Downloading.
StopDownloadKeepsState(c, id) ==
    IF IsDownloading(c, id)
    THEN [conn |-> c,
          ret |-> Some([download |-> bps_to_string(c[id].state.bandwidth_average),
                        latency |-> seconds_to_string(c[id].state.latency_average)])]
    ELSE [conn |-> c, ret |-> None]

\* stop_download that takes the entry out of the map instead of setting End.
StopDownloadRemoves(c, id) ==
    IF IsDownloading(c, id)
    THEN [conn |-> [i \in DOMAIN c \ {id} |-> c[i]],
          ret |-> Some([download |-> bps_to_string(c[id].state.bandwidth_average),
                        latency |-> seconds_to_string(c[id].state.latency_average)])]
    ELSE [conn |-> c, ret |-> None]

\* AppState::stop_download.
StopDownload(c, id) ==
    IF IsDownloading(c, id)
    THEN [conn |-> [c EXCEPT ![id].state = End],
          ret |-> Some([download |-> bps_to_string(c[id].state.bandwidth_average),
                        latency |-> seconds_to_string(c[id].state.latency_average)])]
    ELSE [conn |-> c, ret |-> None]

\* finish with the wrong state in its pattern.
FinishSendsWhileDownloading(c, id) == IsDownloading(c, id)

\* finish without the check of the state.
FinishSendsAnyState(c, id) == id \in DOMAIN c

\* AppState::finish: whether the call sends the sentinel.
FinishSends(c, id) == IsEnd(c, id)

\* remove that clears the whole map.
RemoveEverySession(c, id) == [i \in {} |-> c[i]]

\* remove that leaves the entry in the map.
RemoveNothing(c, id) == c

\* AppState::remove.
Remove(c, id) == [i \in DOMAIN c \ {id} |-> c[i]]

\* Bytes::new(), the end-of-stream sentinel, and the rendered fragments.
Bytes_new == [kind |-> "empty"]

is_empty(bytes) == bytes.kind = "empty"

IndexHtml == [kind |-> "index"]

StartDownloadHtml == [kind |-> "start_download"]

DownloadHtml(counter, snap) ==
    [kind |-> "download", counter |-> counter + 1, next_size |-> next_size(counter),
     download_speed |-> snap.download_speed, download_latency |-> snap.download_latency]

FinishDownloadHtml(snap) ==
    [kind |-> "finish_download", download |-> snap.download, latency |-> snap.latency]

\* poll_frame as main.rs has it: every message becomes a frame.
PollFrameForwardsAll(bytes) == Some(bytes)

\* StreamingBody::poll_frame on a received message: the frame it yields, or
\* None for the end of the stream.
PollFrame(bytes) == IF is_empty(bytes) THEN None ELSE Some(bytes)

\* ------------------------------------------------------------------ state

VARIABLES
    conn,          \* AppState.conn: the registry, session id -> SessionData
    queue,         \* per session: the messages in the channel, oldest first
    reserved,      \* per session: permits obtained by reserve, not yet sent
    rxClosed,      \* per session: the receiver was dropped
    body,          \* per session: the StreamingBody of the held-open response
    lock,          \* per session: the task holding the entry's lock across an await
    st,            \* per session: the start requests and the timer tasks they spawn
    dl,            \* per session: the download requests and their measurement tasks
    sent,          \* history: every message enqueued on the channel, in order
    recv,          \* history: every frame the body yielded to the client, in order
    timers,        \* history: the number of timer tasks spawned
    removals,      \* history: the number of completed calls of remove
    disconnected,  \* history: the client closed the held-open connection
    folded,        \* history: the chunk samples folded into the bandwidth average, in order
    upload         \* the upload request: the rate it measured and its response

vars == <<conn, queue, reserved, rxClosed, body, lock, st, dl, sent, recv, timers,
          removals, disconnected, folded, upload>>

IdleStart == [pc |-> "idle", snap |-> None]

DoneStart == [pc |-> "done", snap |-> None]

IdleDown == [pc |-> "idle", counter |-> 0, size |-> 0, snap |-> None]

DoneDown == [pc |-> "done", counter |-> 0, size |-> 0, snap |-> None]

IdleUpload == [pc |-> "idle", rate |-> <<F(0), 0>>, text |-> None]

Init ==
    /\ conn = [i \in {} |-> [state |-> Start]]
    /\ queue = [i \in Ids |-> <<>>]
    /\ reserved = [i \in Ids |-> 0]
    /\ rxClosed = [i \in Ids |-> FALSE]
    /\ body = [i \in Ids |-> "none"]
    /\ lock = [i \in Ids |-> 0]
    /\ st = [i \in Ids |-> [s \in StartTasks |-> IdleStart]]
    /\ dl = [i \in Ids |-> [d \in DownTasks |-> IdleDown]]
    /\ sent = [i \in Ids |-> <<>>]
    /\ recv = [i \in Ids |-> <<>>]
    /\ timers = [i \in Ids |-> 0]
    /\ removals = [i \in Ids |-> 0]
    /\ disconnected = [i \in Ids |-> FALSE]
    /\ folded = [i \in Ids |-> <<>>]
    /\ upload = IdleUpload

\* ---------------------------------------------------------------- channel

\* A channel whose send and reserve never wait for a free slot.
CanSendUnbounded(id) == TRUE

\* Sender::send and Sender::reserve complete when the receiver is gone (with
\* an error) or the channel has a free slot; otherwise the task stays suspended.
\* Which of several suspended senders gets a freed slot is left open.
CanSend(id) == rxClosed[id] \/ Len(queue[id]) + reserved[id] < Capacity

\* The message is enqueued, unless the receiver is gone.
Push(id, bytes) ==
    /\ queue' = [queue EXCEPT ![id] = IF rxClosed[id] THEN @ ELSE Append(@, bytes)]
    /\ sent' = [sent EXCEPT ![id] = IF rxClosed[id] THEN @ ELSE Append(@, bytes)]

\* DashMap's get_mut, insert and remove wait while a task holds the entry.
LockFree(id) == lock[id] = 0

\* ----------------------------------------------------------- connection

\* routes::index: a fresh id, the session inserted in Start, the index page
\* sent on the new channel, the body handed to the server.
Index(id) ==
    /\ body[id] = "none"
    /\ LockFree(id)
    /\ conn' = Insert(conn, id)
    /\ Push(id, IndexHtml)
    /\ body' = [body EXCEPT ![id] = "open"]
    /\ UNCHANGED <<reserved, rxClosed, lock, st, dl, recv, timers, removals, disconnected, folded, upload>>

\* self.rx.poll_recv(cx) is ready: the body is alive and a message is queued.
PollReady(id) == body[id] = "open" /\ queue[id] # <<>>

\* StreamingBody::poll_frame with a message ready: a frame for the client, or
\* the end of the stream, after which the server drops the body.
Poll(id) ==
    /\ PollReady(id)
    /\ LET r == PollFrame(Head(queue[id]))
       IN  /\ queue' = [queue EXCEPT ![id] = Tail(@)]
           /\ recv' = [recv EXCEPT ![id] = IF r.some THEN Append(@, r.val) ELSE @]
           /\ body' = [body EXCEPT ![id] = IF r.some THEN @ ELSE "dropping"]
    /\ UNCHANGED <<conn, reserved, rxClosed, lock, st, dl, sent, timers, removals, disconnected, folded, upload>>

\* The client closes the held-open connection: the server drops the body.
Disconnect(id) ==
    /\ body[id] = "open"
    /\ body' = [body EXCEPT ![id] = "dropping"]
    /\ disconnected' = [disconnected EXCEPT ![id] = TRUE]
    /\ UNCHANGED <<conn, queue, reserved, rxClosed, lock, st, dl, sent, recv, timers, removals, folded, upload>>

\* The body is being dropped and remove can take the entry.
DropRemoveReady(id) == body[id] = "dropping" /\ LockFree(id)

\* Drop for StreamingBody: self.state.remove(self.id).
DropRemove(id) ==
    /\ DropRemoveReady(id)
    /\ conn' = Remove(conn, id)
    /\ body' = [body EXCEPT ![id] = "removed"]
    /\ removals' = [removals EXCEPT ![id] = @ + 1]
    /\ UNCHANGED <<queue, reserved, rxClosed, lock, st, dl, sent, recv, timers, disconnected, folded, upload>>

\* After drop() returns the fields are dropped: rx closes the channel.
DropRx(id) ==
    /\ body[id] = "removed"
    /\ body' = [body EXCEPT ![id] = "closed"]
    /\ rxClosed' = [rxClosed EXCEPT ![id] = TRUE]
    /\ queue' = [queue EXCEPT ![id] = <<>>]
    /\ UNCHANGED <<conn, reserved, lock, st, dl, sent, recv, timers, removals, disconnected, folded, upload>>

\* ------------------------------------------------------ start and timer

\* Task s of id is at pc, and for a registry call its entry is free, for a send
\* the channel lets it complete.
AtCall(id, s, pc) == st[id][s].pc = pc /\ LockFree(id)

AtSend(id, s, pc) == st[id][s].pc = pc /\ CanSend(id)

\* routes::start up to its first await: state.start_download(id).
StartReq(id, s) ==
    /\ AtCall(id, s, "idle")
    /\ IF s = 1 THEN TRUE ELSE st[id][s - 1].pc # "idle"
    /\ LET r == StartDownload(conn, id)
       IN  /\ conn' = r.conn
           /\ st' = [st EXCEPT ![id][s] = IF r.ret.some THEN [pc |-> "send_start", snap |-> None]
                                          ELSE DoneStart]
    /\ UNCHANGED <<queue, reserved, rxClosed, body, lock, dl, sent, recv, timers, removals, disconnected, folded, upload>>

\* sender.send(start page).await, then tokio::spawn of the timer task.
StartSend(id, s) ==
    /\ AtSend(id, s, "send_start")
    /\ Push(id, StartDownloadHtml)
    /\ st' = [st EXCEPT ![id][s].pc = "sleep"]
    /\ timers' = [timers EXCEPT ![id] = @ + 1]
    /\ UNCHANGED <<conn, reserved, rxClosed, body, lock, dl, recv, removals, disconnected, folded, upload>>

\* The timer task after its sleep: state.stop_download(id).
TimerFire(id, s) ==
    /\ AtCall(id, s, "sleep")
    /\ LET r == StopDownload(conn, id)
       IN  /\ conn' = r.conn
           /\ st' = [st EXCEPT ![id][s] = IF r.ret.some THEN [pc |-> "send_final", snap |-> r.ret]
                                          ELSE DoneStart]
    /\ UNCHANGED <<queue, reserved, rxClosed, body, lock, dl, sent, recv, timers, removals, disconnected, folded, upload>>

\* sender.send(final page).await.
TimerSendFinal(id, s) ==
    /\ AtSend(id, s, "send_final")
    /\ Push(id, FinishDownloadHtml(st[id][s].snap.val))
    /\ st' = [st EXCEPT ![id][s] = [pc |-> "finish", snap |-> None]]
    /\ UNCHANGED <<conn, reserved, rxClosed, body, lock, dl, recv, timers, removals, disconnected, folded, upload>>

\* state.finish(id): get_mut, and for a session in End sender.finish().await
\* with the entry held.  The send completes at once when the channel has a
\* slot; otherwise the task is suspended holding the entry.
TimerFinish(id, s) ==
    /\ AtCall(id, s, "finish")
    /\ IF FinishSends(conn, id) /\ ~CanSend(id)
       THEN /\ lock' = [lock EXCEPT ![id] = s]
            /\ st' = [st EXCEPT ![id][s].pc = "finish_wait"]
            /\ UNCHANGED <<queue, sent>>
       ELSE /\ IF FinishSends(conn, id) THEN Push(id, Bytes_new) ELSE UNCHANGED <<queue, sent>>
            /\ st' = [st EXCEPT ![id][s] = DoneStart]
            /\ lock' = lock
    /\ UNCHANGED <<conn, reserved, rxClosed, body, dl, recv, timers, removals, disconnected, folded, upload>>

\* The suspended sender.finish() completes and the entry is released.
TimerFinishResume(id, s) ==
    /\ AtSend(id, s, "finish_wait")
    /\ Push(id, Bytes_new)
    /\ lock' = [lock EXCEPT ![id] = 0]
    /\ st' = [st EXCEPT ![id][s] = DoneStart]
    /\ UNCHANGED <<conn, reserved, rxClosed, body, dl, recv, timers, removals, disconnected, folded, upload>>

\* --------------------------------------------------------------- download

\* routes::download: state.measure_download_latency(id, ts, i), then the
\* DownloadBody is handed to the server.
DownloadReqWith(id, d, counter, size, in) ==
    /\ dl[id][d].pc = "idle"
    /\ IF d = 1 THEN TRUE ELSE dl[id][d - 1].pc # "idle"
    /\ LockFree(id)
    /\ conn' = MeasureLatency(conn, id, in[1], in[2], counter)
    /\ dl' = [dl EXCEPT ![id][d] = [pc |-> "body", counter |-> counter, size |-> size,
                                    snap |-> None]]
    /\ UNCHANGED <<queue, reserved, rxClosed, body, lock, st, sent, recv, timers, removals, disconnected, folded, upload>>

\* The request with its query parameters and the clock drawn from the inputs.
DownloadReq(id, d) ==
    \E counter \in 0..MaxSeq, size \in Sizes, in \in LatencyInputs :
        DownloadReqWith(id, d, counter, size, in)

\* DownloadBody::poll_frame at the end of the body: the spawned task calls
\* state.measure_download_bandwidth(id, instant, size); chunk is what
\* instant.elapsed() reads and since what start.elapsed() reads.  The call
\* writes the accumulators and then formats the average with the entry held:
\* for an average of +inf the loop of bps_to_string never ends, and the task
\* stays in the call, holding the entry.
DownloadMeasureWith(id, d, chunk, since) ==
    /\ dl[id][d].pc = "body"
    /\ LockFree(id)
    /\ LET size == dl[id][d].size
           sample == [task |-> d, elapsed |-> chunk, speed |-> calculate_bps(chunk, size),
                      weight |-> calculate_bandwidth_weight(since, size)]
           new == BandwidthFold(conn[id].state.bandwidth_average,
                                conn[id].state.bandwidth_total_weights,
                                sample.speed, sample.weight)
       IN  IF IsDownloading(conn, id) /\ ~LoopEnds(new[1])
           THEN /\ conn' = [conn EXCEPT ![id].state.bandwidth_average = new[1],
                                        ![id].state.bandwidth_total_weights = new[2]]
                /\ dl' = [dl EXCEPT ![id][d].pc = "format"]
                /\ lock' = [lock EXCEPT ![id] = -d]
                /\ folded' = [folded EXCEPT ![id] = Append(@, sample)]
           ELSE LET r == MeasureBandwidth(conn, id, chunk, size, since)
                IN  /\ conn' = r.conn
                    /\ dl' = [dl EXCEPT ![id][d] =
                                 IF r.ret.some THEN [@ EXCEPT !.pc = "reserve", !.snap = r.ret]
                                 ELSE DoneDown]
                    /\ lock' = lock
                    /\ folded' = [folded EXCEPT ![id] = IF r.ret.some THEN Append(@, sample) ELSE @]
    /\ UNCHANGED <<queue, reserved, rxClosed, body, st, sent, recv, timers, removals, disconnected, upload>>

\* The measurement with the two readings of the clock drawn from the inputs.
DownloadMeasure(id, d) ==
    \E chunk \in ChunkElapsed, since \in SinceStart : DownloadMeasureWith(id, d, chunk, since)

\* The measurement task waits in reserve and the channel lets it complete.
ReserveReady(id, d) == dl[id][d].pc = "reserve" /\ CanSend(id)

\* sender.reserve().await: a permit, or nothing when the receiver is gone.
DownloadReserve(id, d) ==
    /\ ReserveReady(id, d)
    /\ IF rxClosed[id]
       THEN /\ dl' = [dl EXCEPT ![id][d] = DoneDown]
            /\ reserved' = reserved
       ELSE /\ dl' = [dl EXCEPT ![id][d].pc = "permit"]
            /\ reserved' = [reserved EXCEPT ![id] = @ + 1]
    /\ UNCHANGED <<conn, queue, rxClosed, body, lock, st, sent, recv, timers, removals, disconnected, folded, upload>>

\* permit.send(progress fragment).
DownloadCommit(id, d) ==
    /\ dl[id][d].pc = "permit"
    /\ Push(id, DownloadHtml(dl[id][d].counter, dl[id][d].snap.val))
    /\ reserved' = [reserved EXCEPT ![id] = @ - 1]
    /\ dl' = [dl EXCEPT ![id][d] = DoneDown]
    /\ UNCHANGED <<conn, rxClosed, body, lock, st, recv, timers, removals, disconnected, folded, upload>>

\* ---------------------------------------------------------- specification

Next ==
    \/ \E id \in Ids : Index(id)
    \/ \E id \in Ids : Poll(id)
    \/ \E id \in Ids : Disconnect(id)
    \/ \E id \in Ids : DropRemove(id)
    \/ \E id \in Ids : DropRx(id)
    \/ \E id \in Ids, s \in StartTasks : StartReq(id, s)
    \/ \E id \in Ids, s \in StartTasks : StartSend(id, s)
    \/ \E id \in Ids, s \in StartTasks : TimerFire(id, s)
    \/ \E id \in Ids, s \in StartTasks : TimerSendFinal(id, s)
    \/ \E id \in Ids, s \in StartTasks : TimerFinish(id, s)
    \/ \E id \in Ids, s \in StartTasks : TimerFinishResume(id, s)
    \/ \E id \in Ids, d \in DownTasks : DownloadReq(id, d)
    \/ \E id \in Ids, d \in DownTasks : DownloadMeasure(id, d)
    \/ \E id \in Ids, d \in DownTasks : DownloadReserve(id, d)
    \/ \E id \in Ids, d \in DownTasks : DownloadCommit(id, d)

Spec == Init /\ [][Next]_vars

\* Two sessions side by side, each with one start request and one download
\* request.  The entries are held one by one: two ids that fall into the same
\* shard of the map wait for each other as well, which only takes steps away
\* from the runs below.
PairIds == {"a", "b"}

PairTasks == {1}

\* The download request of a session of the pair: sequence number 0, one size.
PairDownloadReq(id, d) ==
    \E in \in LatencyInputs : DownloadReqWith(id, d, 0, 1250000, in)

PairInit ==
    /\ conn = [i \in {} |-> [state |-> Start]]
    /\ queue = [i \in PairIds |-> <<>>]
    /\ reserved = [i \in PairIds |-> 0]
    /\ rxClosed = [i \in PairIds |-> FALSE]
    /\ body = [i \in PairIds |-> "none"]
    /\ lock = [i \in PairIds |-> 0]
    /\ st = [i \in PairIds |-> [s \in PairTasks |-> IdleStart]]
    /\ dl = [i \in PairIds |-> [d \in PairTasks |-> IdleDown]]
    /\ sent = [i \in PairIds |-> <<>>]
    /\ recv = [i \in PairIds |-> <<>>]
    /\ timers = [i \in PairIds |-> 0]
    /\ removals = [i \in PairIds |-> 0]
    /\ disconnected = [i \in PairIds |-> FALSE]
    /\ folded = [i \in PairIds |-> <<>>]
    /\ upload = IdleUpload

PairNext ==
    \/ \E id \in PairIds : Index(id)
    \/ \E id \in PairIds : Poll(id)
    \/ \E id \in PairIds : Disconnect(id)
    \/ \E id \in PairIds : DropRemove(id)
    \/ \E id \in PairIds : DropRx(id)
    \/ \E id \in PairIds, s \in PairTasks : StartReq(id, s)
    \/ \E id \in PairIds, s \in PairTasks : StartSend(id, s)
    \/ \E id \in PairIds, s \in PairTasks : TimerFire(id, s)
    \/ \E id \in PairIds, s \in PairTasks : TimerSendFinal(id, s)
    \/ \E id \in PairIds, s \in PairTasks : TimerFinish(id, s)
    \/ \E id \in PairIds, s \in PairTasks : TimerFinishResume(id, s)
    \/ \E id \in PairIds, d \in PairTasks : PairDownloadReq(id, d)
    \/ \E id \in PairIds, d \in PairTasks : DownloadMeasure(id, d)
    \/ \E id \in PairIds, d \in PairTasks : DownloadReserve(id, d)
    \/ \E id \in PairIds, d \in PairTasks : DownloadCommit(id, d)

PairSpec == PairInit /\ [][PairNext]_vars

\* ----------------------------------------------------------------- upload

\* routes::upload with all four fields present: calculate_bps(duration,
\* file_size), the rate kept as <<x, e>> for x * 1000^e.
UploadReq ==
    /\ upload.pc = "idle"
    /\ \E duration \in UploadDurations, file_size \in UploadSizes :
          upload' = [pc |-> "measured", rate |-> <<calculate_bps(duration, file_size), 0>>,
                     text |-> None]
    /\ UNCHANGED <<conn, queue, reserved, rxClosed, body, lock, st, dl, sent, recv, timers,
                   removals, disconnected, folded>>

\* bps_to_string of the measured rate and the redirect that carries it: the
\* loop never ends for +inf, and the index into SPEED_SUFFIX panics when the
\* loop has run more often than the array is long.
UploadRespond ==
    /\ upload.pc = "measured"
    /\ LET x == upload.rate[1]
           e == upload.rate[2]
       IN  upload' =
               IF ~LoopEnds(x) THEN [upload EXCEPT !.pc = "format"]
               ELSE IF ~SuffixInRange(ScaleRate(x, e, 0)[2]) THEN [upload EXCEPT !.pc = "panicked"]
               ELSE [upload EXCEPT !.pc = "responded", !.text = Some(RateToString(x, e))]
    /\ UNCHANGED <<conn, queue, reserved, rxClosed, body, lock, st, dl, sent, recv, timers,
                   removals, disconnected, folded>>

\* ------------------------------------------------- the measured quantities
\* One session in the middle of its test, its response being read: the
\* download requests come one after the other with the sequence numbers 0, 1,
\* 2 and readings of the clock and sizes that include the zero duration and
\* the chunk of less than 1,000,000 bytes; and one upload request.

NumTasks == {1, 2, 3}

NumSizes == {500000, 1250000, 2500000}

NumElapsed == {F(0), F(1), F(2)}

NumSince == {F(1), F(2)}

NumInit ==
    /\ conn = [i \in Ids |-> [state |-> Downloading(0, F(0), F(0), F(0), F(0))]]
    /\ queue = [i \in Ids |-> <<>>]
    /\ reserved = [i \in Ids |-> 0]
    /\ rxClosed = [i \in Ids |-> FALSE]
    /\ body = [i \in Ids |-> "open"]
    /\ lock = [i \in Ids |-> 0]
    /\ st = [i \in Ids |-> [s \in StartTasks |->
                               IF s = 1 THEN [pc |-> "sleep", snap |-> None] ELSE IdleStart]]
    /\ dl = [i \in Ids |-> [d \in NumTasks |-> IdleDown]]
    /\ sent = [i \in Ids |-> <<IndexHtml, StartDownloadHtml>>]
    /\ recv = [i \in Ids |-> <<IndexHtml, StartDownloadHtml>>]
    /\ timers = [i \in Ids |-> 1]
    /\ removals = [i \in Ids |-> 0]
    /\ disconnected = [i \in Ids |-> FALSE]
    /\ folded = [i \in Ids |-> <<>>]
    /\ upload = IdleUpload

\* Download request d, sent when the one before it has been answered and its
\* progress fragment enqueued, with the next sequence number.
NumDownloadReq(id, d) ==
    /\ IF d = 1 THEN TRUE ELSE dl[id][d - 1].pc = "done"
    /\ \E size \in NumSizes, in \in LatencyInputs : DownloadReqWith(id, d, d - 1, size, in)

NumDownloadMeasure(id, d) ==
    \E chunk \in NumElapsed, since \in NumSince : DownloadMeasureWith(id, d, chunk, since)

NumNext ==
    \/ \E id \in Ids : Poll(id)
    \/ \E id \in Ids, d \in NumTasks : NumDownloadReq(id, d)
    \/ \E id \in Ids, d \in NumTasks : NumDownloadMeasure(id, d)
    \/ \E id \in Ids, d \in NumTasks : DownloadReserve(id, d)
    \/ \E id \in Ids, d \in NumTasks : DownloadCommit(id, d)
    \/ UploadReq
    \/ UploadRespond

NumSpec == NumInit /\ [][NumNext]_vars

\* ------------------------------------------------------- the formatted rate
\* bps_to_string on its own: an upload request whose measured rate is any of
\* the rates below, from 0 to 10^27.

\* x * 1000^e for e up to the last suffix, and 10^27 = 1 * 1000^9.
FmtRates ==
    {<<F(0), 0>>, <<<<1, 2>>, 0>>}
        \cup ({F(1), <<11, 2>>, F(10), <<1999, 20>>, F(100), F(999), <<999999, 1000>>}
                  \X (0..(Len(SPEED_SUFFIX) - 1)))
        \cup {<<F(1), Len(SPEED_SUFFIX)>>}

FmtInit ==
    /\ conn = [i \in {} |-> [state |-> Start]]
    /\ queue = [i \in Ids |-> <<>>]
    /\ reserved = [i \in Ids |-> 0]
    /\ rxClosed = [i \in Ids |-> FALSE]
    /\ body = [i \in Ids |-> "none"]
    /\ lock = [i \in Ids |-> 0]
    /\ st = [i \in Ids |-> [s \in StartTasks |-> IdleStart]]
    /\ dl = [i \in Ids |-> [d \in DownTasks |-> IdleDown]]
    /\ sent = [i \in Ids |-> <<>>]
    /\ recv = [i \in Ids |-> <<>>]
    /\ timers = [i \in Ids |-> 0]
    /\ removals = [i \in Ids |-> 0]
    /\ disconnected = [i \in Ids |-> FALSE]
    /\ folded = [i \in Ids |-> <<>>]
    /\ upload \in {[pc |-> "measured", rate |-> r, text |-> None] : r \in FmtRates}

FmtNext == UploadRespond

FmtSpec == FmtInit /\ [][FmtNext]_vars

\* ------------------------------------------------- the advertised schedule
\* A download request that follows a progress fragment: the fragment of chunk
\* c advertises counter c + 1 and next_size(c), and the client asks for just
\* that.  The request is for an id without a session, so that its measurement
\* returns None; the body is polled twice, first for the slice of the pool.

SchedTasks == {1}

SchedInit ==
    /\ conn = [i \in {} |-> [state |-> Start]]
    /\ queue = [i \in Ids |-> <<>>]
    /\ reserved = [i \in Ids |-> 0]
    /\ rxClosed = [i \in Ids |-> FALSE]
    /\ body = [i \in Ids |-> "none"]
    /\ lock = [i \in Ids |-> 0]
    /\ st = [i \in Ids |-> [s \in StartTasks |-> IdleStart]]
    /\ dl \in {[i \in Ids |-> [d \in SchedTasks |->
                   [pc |-> "body", counter |-> c + 1, size |-> next_size(c), snap |-> None]]] :
                 c \in 0..MaxCounter}
    /\ sent = [i \in Ids |-> <<>>]
    /\ recv = [i \in Ids |-> <<>>]
    /\ timers = [i \in Ids |-> 0]
    /\ removals = [i \in Ids |-> 0]
    /\ disconnected = [i \in Ids |-> FALSE]
    /\ folded = [i \in Ids |-> <<>>]
    /\ upload = IdleUpload

\* DownloadBody::poll_frame, first call: the first size bytes of the pool.
DownloadSlice(id, d) ==
    /\ dl[id][d].pc = "body"
    /\ dl' = [dl EXCEPT ![id][d].pc =
                 IF SliceInRange(dl[id][d].size) THEN "end_stream" ELSE "panicked"]
    /\ UNCHANGED <<conn, queue, reserved, rxClosed, body, lock, st, sent, recv, timers,
                   removals, disconnected, folded, upload>>

\* DownloadBody::poll_frame, second call, for an id without a session in
\* Downloading: measure_download_bandwidth returns None and the task ends.
DownloadEndNoSession(id, d) ==
    /\ dl[id][d].pc = "end_stream"
    /\ LockFree(id)
    /\ ~IsDownloading(conn, id)
    /\ dl' = [dl EXCEPT ![id][d].pc = "done"]
    /\ UNCHANGED <<conn, queue, reserved, rxClosed, body, lock, st, sent, recv, timers,
                   removals, disconnected, folded, upload>>

SchedNext ==
    \/ \E id \in Ids, d \in SchedTasks : DownloadSlice(id, d)
    \/ \E id \in Ids, d \in SchedTasks : DownloadEndNoSession(id, d)

SchedSpec == SchedInit /\ [][SchedNext]_vars

\* ------------------------------------------------------------------ main.rs
\* The program of main.rs: the registry is a HashMap behind a Mutex, a session
\* is Start or Downloading, the body forwards every message, and a download
\* request pushes its progress fragment when its DownloadBody is dropped.

\* get_if_download that hands out the sender of any session it finds.
get_if_present(c, id) == IF id \in DOMAIN c THEN Some("tx") ELSE None

\* AppState::get_if_download of main.rs.
get_if_download(c, id) == IF IsDownloading(c, id) THEN Some("tx") ELSE None

\* AppState::start_download of main.rs: any session it finds is set to
\* Downloading.
MainStartDownload(c, id) ==
    IF id \in DOMAIN c
    THEN [conn |-> [c EXCEPT ![id].state = [tag |-> "Downloading"]], ret |-> Some("tx")]
    ELSE [conn |-> c, ret |-> None]

\* The next_size of the fragment Drop for DownloadBody renders.
main_next_size(counter) ==
    CASE counter = 0 -> 20000000
      [] counter = 1 -> 50000000
      [] OTHER -> 100000000

MainDownloadHtml(counter) ==
    [kind |-> "download", counter |-> counter + 1, next_size |-> main_next_size(counter)]

\* Sender::try_send: "Closed" when the receiver is gone, "Full" when the
\* channel has no free slot, else "Ok".
TrySendResult(id) ==
    IF rxClosed[id] THEN "Closed"
    ELSE IF Len(queue[id]) + reserved[id] < Capacity THEN "Ok"
    ELSE "Full"

\* StreamingBody::poll_frame of main.rs with a message ready.
MainPoll(id) ==
    /\ PollReady(id)
    /\ LET r == PollFrameForwardsAll(Head(queue[id]))
       IN  /\ queue' = [queue EXCEPT ![id] = Tail(@)]
           /\ recv' = [recv EXCEPT ![id] = IF r.some THEN Append(@, r.val) ELSE @]
    /\ UNCHANGED <<conn, reserved, rxClosed, body, lock, st, dl, sent, timers, removals,
                   disconnected, folded, upload>>

\* start of main.rs up to its await: state.start_download(id).
MainStartReq(id, s) ==
    /\ st[id][s].pc = "idle"
    /\ IF s = 1 THEN TRUE ELSE st[id][s - 1].pc # "idle"
    /\ LET r == MainStartDownload(conn, id)
       IN  /\ conn' = r.conn
           /\ st' = [st EXCEPT ![id][s] = IF r.ret.some THEN [pc |-> "send_start", snap |-> None]
                                          ELSE DoneStart]
    /\ UNCHANGED <<queue, reserved, rxClosed, body, lock, dl, sent, recv, timers, removals,
                   disconnected, folded, upload>>

\* tx.send(start page).await, the end of the handler.
MainStartSend(id, s) ==
    /\ AtSend(id, s, "send_start")
    /\ Push(id, StartDownloadHtml)
    /\ st' = [st EXCEPT ![id][s] = DoneStart]
    /\ UNCHANGED <<conn, reserved, rxClosed, body, lock, dl, recv, timers, removals,
                   disconnected, folded, upload>>

\* download of main.rs: the DownloadBody is handed to the server.
MainDownloadReq(id, d) ==
    /\ dl[id][d].pc = "idle"
    /\ IF d = 1 THEN TRUE ELSE dl[id][d - 1].pc # "idle"
    /\ \E counter \in 0..MaxSeq, size \in Sizes :
          dl' = [dl EXCEPT ![id][d] = [pc |-> "body", counter |-> counter, size |-> size,
                                      snap |-> None]]
    /\ UNCHANGED <<conn, queue, reserved, rxClosed, body, lock, st, sent, recv, timers, removals,
                   disconnected, folded, upload>>

\* Drop for DownloadBody: self.state.get_if_download(self.id), under the mutex.
MainDropLookup(id, d) ==
    /\ dl[id][d].pc = "body"
    /\ dl' = [dl EXCEPT ![id][d] = IF get_if_download(conn, id).some
                                   THEN [@ EXCEPT !.pc = "try_send"]
                                   ELSE DoneDown]
    /\ UNCHANGED <<conn, queue, reserved, rxClosed, body, lock, st, sent, recv, timers, removals,
                   disconnected, folded, upload>>

\* let _ = tx.try_send(fragment): the fragment is enqueued when the result is
\* Ok, and the result is discarded; snap keeps it for the record.
MainDropTrySend(id, d) ==
    /\ dl[id][d].pc = "try_send"
    /\ IF TrySendResult(id) = "Ok"
       THEN Push(id, MainDownloadHtml(dl[id][d].counter))
       ELSE UNCHANGED <<queue, sent>>
    /\ dl' = [dl EXCEPT ![id][d] = [DoneDown EXCEPT !.snap = Some(TrySendResult(id))]]
    /\ UNCHANGED <<conn, reserved, rxClosed, body, lock, st, recv, timers, removals,
                   disconnected, folded, upload>>

MainNext ==
    \/ \E id \in Ids : Index(id)
    \/ \E id \in Ids : MainPoll(id)
    \/ \E id \in Ids : Disconnect(id)
    \/ \E id \in Ids : DropRemove(id)
    \/ \E id \in Ids : DropRx(id)
    \/ \E id \in Ids, s \in StartTasks : MainStartReq(id, s)
    \/ \E id \in Ids, s \in StartTasks : MainStartSend(id, s)
    \/ \E id \in Ids, d \in DownTasks : MainDownloadReq(id, d)
    \/ \E id \in Ids, d \in DownTasks : MainDropLookup(id, d)
    \/ \E id \in Ids, d \in DownTasks : MainDropTrySend(id, d)

MainSpec == Init /\ [][MainNext]_vars

\* Some step of session id can run without a further decision of the client:
\* the runtime keeps scheduling the spawned tasks and the handlers past their
\* first await, the server drops a finished or abandoned body, and a connected
\* client keeps reading the held-open response.  Every step of Next advances a
\* task, the body or the channel and none is ever undone, so a run in which
\* none of these steps can run has come to rest.
ServerCanStep(id) ==
    \/ PollReady(id)
    \/ DropRemoveReady(id)
    \/ body[id] = "removed"
    \/ \E s \in StartTasks :
          \/ AtSend(id, s, "send_start")
          \/ AtCall(id, s, "sleep")
          \/ AtSend(id, s, "send_final")
          \/ AtCall(id, s, "finish")
          \/ AtSend(id, s, "finish_wait")
    \/ \E d \in DownTasks : ReserveReady(id, d) \/ dl[id][d].pc = "permit"

\* ------------------------------------------------------------- properties

StateRank(tag) == CASE tag = "Start" -> 0 [] tag = "Downloading" -> 1 [] tag = "End" -> 2

\* The entry of id was removed by the drop of its body.
Removed(id) == body[id] \in {"removed", "closed"}

\* The body of id returned the end of the stream to the server.
EosSeen(id) == body[id] \in {"dropping", "removed", "closed"} /\ ~disconnected[id]

Accumulators(c, id) ==
    <<c[id].state.bandwidth_average, c[id].state.bandwidth_total_weights,
      c[id].state.latency_average, c[id].state.latency_total_weights>>

\* Task s of id makes its call of start_download in this step.
StartCall(id, s) == st[id][s].pc = "idle" /\ st'[id][s].pc # "idle"

\* Timer task s of id makes its call of stop_download in this step.
StopCall(id, s) == st[id][s].pc = "sleep" /\ st'[id][s].pc # "sleep"

\* Task d of id makes its call of measure_download_latency in this step.
LatencyCall(id, d) == dl[id][d].pc = "idle" /\ dl'[id][d].pc # "idle"

\* Task d of id makes its call of measure_download_bandwidth in this step.
BandwidthCall(id, d) == dl[id][d].pc = "body" /\ dl'[id][d].pc # "body"

Positions(seq, kind) == {i \in 1..Len(seq) : seq[i].kind = kind}

IsPrefix(p, q) == Len(p) <= Len(q) /\ \A i \in 1..Len(p) : p[i] = q[i]

\* The messages of seq before its first empty one.
BeforeSentinel(seq) ==
    LET e == Positions(seq, "empty")
    IN  IF e = {} THEN seq ELSE SubSeq(seq, 1, (CHOOSE i \in e : \A j \in e : i <= j) - 1)

\* C1: in every step a session's state stays as it is or moves from Start to
\* Downloading or from Downloading to End.
C1_StateMovesForward ==
    [][\A id \in Ids :
          (id \in DOMAIN conn /\ id \in DOMAIN conn') =>
              \/ conn'[id].state.tag = conn[id].state.tag
              \/ StateRank(conn'[id].state.tag) = StateRank(conn[id].state.tag) + 1]_vars

\* A session that reached End while a second start request was answered.
C1_Witness ==
    /\ IsEnd(conn, "a")
    /\ st["a"][2].pc = "done"
    /\ timers["a"] = 1
    /\ dl["a"][1].pc = "done"

\* C2: a session never has more than one timer task, at most one start
\* request is past start_download, and a start request that does not find
\* the session in Start returns None and changes nothing, while one that does
\* find it in Start moves it to Downloading.
C2_SingleTimer ==
    /\ [](\A id \in Ids :
             /\ timers[id] <= 1
             /\ Cardinality({s \in StartTasks : st[id][s].pc \notin {"idle", "done"}}) <= 1)
    /\ [][\A id \in Ids, s \in StartTasks :
             StartCall(id, s) =>
                 IF IsStart(conn, id)
                 THEN IsDownloading(conn', id) /\ st'[id][s].pc = "send_start"
                 ELSE /\ st'[id][s].pc = "done"
                      /\ conn' = conn
                      /\ UNCHANGED <<queue, sent, timers>>]_vars

\* The timer of the first start request is running, the accumulators have
\* moved, and the second start request was answered.
C2_Witness ==
    /\ timers["a"] = 1
    /\ st["a"][1].pc = "sleep"
    /\ st["a"][2].pc = "done"
    /\ IsDownloading(conn, "a")
    /\ conn["a"].state.latency_total_weights = F(1)
    /\ conn["a"].state.bandwidth_total_weights # F(0)

\* C3: a call of measure_download_latency or measure_download_bandwidth for a
\* request whose sequence number is below the session's recorded counter
\* leaves the four accumulator values as they are.
C3_StaleSampleIgnored ==
    [][\A id \in Ids, d \in DownTasks :
          /\ (LatencyCall(id, d) /\ IsDownloading(conn, id)
                  /\ dl'[id][d].counter < conn[id].state.counter)
                => Accumulators(conn', id) = Accumulators(conn, id)
          /\ (BandwidthCall(id, d) /\ IsDownloading(conn, id)
                  /\ dl[id][d].counter < conn[id].state.counter)
                => Accumulators(conn', id) = Accumulators(conn, id)]_vars

\* C4: a call of measure_download_latency or measure_download_bandwidth on a
\* session that is not in Downloading (in Start, in End or absent) leaves the
\* registry and the channel as they are, and measure_download_bandwidth
\* returns None.
C4_MeasureOutsideDownloading ==
    [][\A id \in Ids, d \in DownTasks :
          ((LatencyCall(id, d) \/ BandwidthCall(id, d)) /\ ~IsDownloading(conn, id)) =>
              /\ conn' = conn
              /\ UNCHANGED <<queue, sent, reserved>>
              /\ BandwidthCall(id, d) => dl'[id][d] = DoneDown]_vars

\* The test is over with the response still open, both download requests
\* were answered and no progress fragment was ever enqueued: each
\* measurement found the session outside Downloading.
C4_Witness ==
    /\ IsEnd(conn, "a")
    /\ body["a"] = "open"
    /\ \A d \in DownTasks : dl["a"][d].pc = "done"
    /\ Positions(sent["a"], "download") = {}

\* C5: stop_download on a Downloading session returns the final values and
\* sets End, after which a further call returns None and changes nothing; on
\* any other session it returns None and changes nothing; and the timer's own
\* call behaves so.
C5_StopOnce ==
    /\ [](\A id \in Ids :
             LET r == StopDownload(conn, id)
             IN  IF IsDownloading(conn, id)
                 THEN /\ r.ret.some
                      /\ IsEnd(r.conn, id)
                      /\ StopDownload(r.conn, id) = [conn |-> r.conn, ret |-> None]
                 ELSE r = [conn |-> conn, ret |-> None])
    /\ [][\A id \in Ids, s \in StartTasks :
             StopCall(id, s) =>
                 IF IsDownloading(conn, id)
                 THEN /\ IsEnd(conn', id)
                      /\ st'[id][s].pc = "send_final"
                      /\ st'[id][s].snap =
                            Some([download |-> bps_to_string(conn[id].state.bandwidth_average),
                                  latency |-> seconds_to_string(conn[id].state.latency_average)])
                 ELSE conn' = conn /\ st'[id][s] = DoneStart]_vars

\* The timer's call returned the final values of a session with samples.
C5_Witness ==
    /\ IsEnd(conn, "a")
    /\ st["a"][1].pc = "send_final"
    /\ st["a"][1].snap.val.download.digits # 0

\* C6: while the body of a session is being dropped its removal is never
\* stuck (some step of the server can still run), remove never runs twice for
\* the session, and once the body is gone the entry is absent.
C6_DropRemovesSession ==
    \A id \in Ids :
        /\ body[id] = "dropping" => ServerCanStep(id)
        /\ removals[id] <= 1
        /\ Removed(id) => (removals[id] = 1 /\ id \notin DOMAIN conn)

\* C7: once the entry of a session was removed it is never inserted again, a
\* timer task that fires then finds stop_download returning None and ends
\* without enqueuing, and a measurement task that runs then gets None and
\* ends without reserving or enqueuing.
C7_RemovedIsNoOp ==
    [][\A id \in Ids :
          Removed(id) =>
              /\ id \notin DOMAIN conn'
              /\ \A s \in StartTasks :
                    StopCall(id, s) => st'[id][s] = DoneStart /\ UNCHANGED <<queue, sent>>
              /\ \A d \in DownTasks :
                    BandwidthCall(id, d) =>
                        dl'[id][d] = DoneDown /\ UNCHANGED <<queue, sent, reserved>>]_vars

\* The entry was removed with the receiver still alive, the timer has run to
\* its end and no final fragment was enqueued: its stop_download found no
\* session.
C7_Witness ==
    /\ body["a"] = "removed"
    /\ timers["a"] = 1
    /\ st["a"][1].pc = "done"
    /\ Positions(sent["a"], "finish_download") = {}
    /\ dl["a"][1].pc = "done"

\* The test ended by itself: the final fragment and after it the sentinel were
\* enqueued, the body saw the end of the stream and the entry was removed.
EndedByTimer(id) ==
    /\ EosSeen(id)
    /\ Removed(id)
    /\ id \notin DOMAIN conn
    /\ \E i \in Positions(sent[id], "finish_download") :
          \E j \in Positions(sent[id], "empty") : i < j

\* A start request found the session in Start.
Started(id) == timers[id] > 0 \/ \E s \in StartTasks : st[id][s].pc = "send_start"

\* C8: after a successful start, unless the client closes the held-open
\* connection, the run does not come to rest before the test has ended by
\* itself: some step of the server can run until then.
C8_TimerEndsTest ==
    \A id \in Ids :
        (Started(id) /\ ~disconnected[id]) => (EndedByTimer(id) \/ ServerCanStep(id))

\* The test ended by itself after progress fragments were enqueued.
C8_Witness == EndedByTimer("a") /\ body["a"] = "closed" /\ Positions(sent["a"], "download") # {}

\* C9: the frames the client received are the first messages enqueued, in
\* order, none of them the sentinel and none enqueued after it; when the body
\* has seen the end of the stream they are all the messages enqueued before
\* the sentinel; and after that no frame is delivered.
C9_SentinelLast ==
    /\ [](\A id \in Ids :
             /\ IsPrefix(recv[id], BeforeSentinel(sent[id]))
             /\ EosSeen(id) => recv[id] = BeforeSentinel(sent[id]))
    /\ [][\A id \in Ids : EosSeen(id) => recv'[id] = recv[id]]_vars

\* The body saw the end of the stream although a message was enqueued after
\* the sentinel.
C9_Witness ==
    /\ EosSeen("a")
    /\ Len(BeforeSentinel(sent["a"])) + 1 < Len(sent["a"])
    /\ Len(recv["a"]) >= 4

\* C10: at most one sentinel is ever enqueued per session; a step that
\* enqueues one is the finish of a timer task on a session in End; and finish
\* sends nothing for a session that is not in End.
C10_SentinelOnlyFromEnd ==
    /\ [](\A id \in Ids :
             /\ Cardinality(Positions(sent[id], "empty")) <= 1
             /\ FinishSends(conn, id) => IsEnd(conn, id))
    /\ [][\A id \in Ids :
             (Len(sent'[id]) > Len(sent[id]) /\ is_empty(sent'[id][Len(sent'[id])])) =>
                 /\ IsEnd(conn, id)
                 /\ \E s \in StartTasks :
                       /\ st[id][s].pc \in {"finish", "finish_wait"}
                       /\ st'[id][s] = DoneStart]_vars

\* The sentinel was enqueued and reached the body.
C10_Witness ==
    /\ Cardinality(Positions(sent["a"], "empty")) = 1
    /\ EosSeen("a")

\* C11: the channel never holds more than Capacity messages and permits; a
\* send or reserve completes only when the channel has a free slot (or the
\* receiver is gone) and until then the producer stays where it is; a message
\* sent while the receiver is alive is enqueued, never dropped; every permit
\* is held by one task, whose commit takes no further slot, gives the permit
\* back and enqueues the fragment.
C11_ChannelBounded ==
    /\ [](\A id \in Ids :
             /\ Len(queue[id]) + reserved[id] <= Capacity
             /\ reserved[id] = Cardinality({d \in DownTasks : dl[id][d].pc = "permit"}))
    /\ [][\A id \in Ids :
             /\ \A s \in StartTasks :
                   (st[id][s].pc \in {"send_start", "send_final", "finish_wait"}
                        /\ st'[id][s].pc # st[id][s].pc) =>
                       /\ CanSend(id)
                       /\ ~rxClosed[id] =>
                              /\ Len(queue[id]) + reserved[id] < Capacity
                              /\ Len(queue'[id]) = Len(queue[id]) + 1
                              /\ Len(sent'[id]) = Len(sent[id]) + 1
             /\ \A d \in DownTasks :
                   /\ (dl[id][d].pc = "reserve" /\ dl'[id][d].pc # "reserve") =>
                          /\ CanSend(id)
                          /\ ~rxClosed[id] =>
                                 /\ Len(queue[id]) + reserved[id] < Capacity
                                 /\ dl'[id][d].pc = "permit"
                                 /\ reserved'[id] = reserved[id] + 1
                   /\ (dl[id][d].pc = "permit" /\ dl'[id][d].pc # "permit") =>
                          /\ dl'[id][d] = DoneDown
                          /\ reserved'[id] = reserved[id] - 1
                          /\ ~rxClosed[id] =>
                                 /\ queue'[id] = Append(queue[id], DownloadHtml(dl[id][d].counter,
                                                                               dl[id][d].snap.val))
                                 /\ sent'[id] = Append(sent[id], DownloadHtml(dl[id][d].counter,
                                                                             dl[id][d].snap.val))
             /\ (Len(queue'[id]) > Len(queue[id]) /\ body[id] # "none") =>
                   \/ Len(queue[id]) + reserved[id] < Capacity
                   \/ reserved'[id] = reserved[id] - 1]_vars

\* The channel is full with one permit outstanding, a second measurement task
\* waits in reserve, and the client has already drained a message.
C11_Witness ==
    /\ body["a"] = "open"
    /\ Len(queue["a"]) + reserved["a"] = Capacity
    /\ dl["a"][1].pc = "permit"
    /\ dl["a"][2].pc = "reserve"
    /\ Len(recv["a"]) >= 1

\* The place of task d among the samples folded for session id, 0 if none.
FoldPlace(id, d) ==
    LET p == {i \in 1..Len(folded[id]) : folded[id][i].task = d}
    IN  IF p = {} THEN 0 ELSE CHOOSE i \in p : TRUE

\* C12: when a measurement task enqueues its progress fragment, no task whose
\* chunk was folded into the bandwidth average before its own is still
\* waiting to enqueue: the fragments are enqueued in the order of the folds.
C12_FragmentsInFoldOrder ==
    [][\A id \in Ids, d \in DownTasks :
          (dl[id][d].pc = "permit" /\ dl'[id][d].pc = "done" /\ ~rxClosed[id]) =>
              \A e \in DownTasks :
                  (dl[id][e].pc \in {"reserve", "permit"} /\ e # d) =>
                      FoldPlace(id, d) < FoldPlace(id, e)]_vars

\* C15: while a session is Downloading, a call of measure_download_latency
\* whose sequence number is at least the recorded counter sets the counter to
\* that number and adds exactly 1 to the latency total weight; any other step
\* leaves both as they are; the counter never decreases; and a session enters
\* Downloading with both at 0.
C15_LatencyAccepted ==
    [][\A id \in Ids :
          /\ (IsDownloading(conn, id) /\ IsDownloading(conn', id)) =>
                LET s == conn[id].state
                    t == conn'[id].state
                    accepted == {d \in DownTasks :
                                    LatencyCall(id, d) /\ dl'[id][d].counter >= s.counter}
                IN  /\ t.counter >= s.counter
                    /\ IF accepted # {}
                       THEN /\ \A d \in accepted : t.counter = dl'[id][d].counter
                            /\ t.latency_total_weights = FAdd(s.latency_total_weights, F(1))
                       ELSE /\ t.counter = s.counter
                            /\ t.latency_total_weights = s.latency_total_weights
                            /\ t.latency_average = s.latency_average
          /\ (~IsDownloading(conn, id) /\ IsDownloading(conn', id)) =>
                /\ conn'[id].state.counter = 0
                /\ conn'[id].state.latency_total_weights = F(0)]_vars

\* A report with sequence number 1 was accepted and a later one with number 0
\* was not: one sample in the accumulator, two requests received.
C15_Witness ==
    /\ IsDownloading(conn, "a")
    /\ dl["a"][1].pc = "body" /\ dl["a"][1].counter = 1
    /\ dl["a"][2].pc = "body" /\ dl["a"][2].counter = 0
    /\ conn["a"].state.counter = 1
    /\ conn["a"].state.latency_total_weights = F(1)

\* C17: the entry of a session is in the registry from index until its body
\* is dropped, whatever the state of the session and whether or not the
\* sentinel was enqueued, and the only step that takes an entry out of the
\* registry is the remove called by the drop of the session's body.
C17_RemovedOnlyByDrop ==
    /\ [](\A id \in Ids : body[id] \in {"open", "dropping"} => id \in DOMAIN conn)
    /\ [][\A id \in Ids :
             (id \in DOMAIN conn /\ id \notin DOMAIN conn') =>
                 /\ body[id] = "dropping"
                 /\ body'[id] = "removed"
                 /\ removals'[id] = removals[id] + 1
                 /\ UNCHANGED <<st, dl>>]_vars

\* The test is over, the timer task has enqueued the sentinel and ended, the
\* sentinel is still in the channel, and the entry is in the registry.
C17_Witness ==
    /\ IsEnd(conn, "a")
    /\ body["a"] = "open"
    /\ st["a"][1].pc = "done"
    /\ Positions(sent["a"], "empty") # {}
    /\ Positions(sent["a"], "download") # {}

\* C20: no task is ever suspended while it holds the entry of a session, so
\* a registry call on the session never has to wait for the channel.
C20_NoSuspendHoldingEntry ==
    \A id \in Ids : LockFree(id) /\ \A s \in StartTasks : st[id][s].pc # "finish_wait"

\* All there is of session id: its entry, its channel, its body and tasks.
Session(id) ==
    <<IF id \in DOMAIN conn THEN Some(conn[id].state) ELSE None,
      queue[id], reserved[id], rxClosed[id], body[id], lock[id], st[id], dl[id],
      sent[id], recv[id], timers[id], removals[id], disconnected[id], folded[id]>>

\* C16: a step in which a request, a task or the body of one session acts
\* leaves everything of every other session as it is: its entry and state,
\* the contents of its channel, its body and its tasks.
C16_OtherSessionsUntouched ==
    [][\A a \in PairIds, b \in PairIds :
          (a # b /\ Session(a)' # Session(a)) => Session(b)' = Session(b)]_vars

\* Session a ran to its end and was removed while session b is in the middle
\* of its test with its response open and a progress fragment enqueued.
C16_Witness ==
    /\ body["a"] = "closed"
    /\ removals["a"] = 1
    /\ IsDownloading(conn, "b")
    /\ body["b"] = "open"
    /\ Positions(sent["b"], "download") # {}

\* The accumulator pair of the bandwidth average of session id in registry c.
BandwidthPair(c, id) ==
    <<c[id].state.bandwidth_average, c[id].state.bandwidth_total_weights>>

\* The throughputs of the chunks folded for session id so far.
Speeds(id) == {folded[id][i].speed : i \in 1..Len(folded[id])}

\* C13: after chunks with increasing sequence numbers, each of a positive
\* number of bytes measured over a positive time, the bandwidth average lies
\* between the smallest and the largest throughput of the chunks folded so
\* far (so it equals their throughput when they all have the same).
C13_AverageWithinSamples ==
    \A id \in Ids :
        (/\ IsDownloading(conn, id)
         /\ folded[id] # <<>>
         /\ \A i \in 1..Len(folded[id]) : FLt(F(0), folded[id][i].elapsed)) =>
            LET average == conn[id].state.bandwidth_average
            IN  /\ \E x \in Speeds(id) : FGe(average, x)
                /\ \E x \in Speeds(id) : FGe(x, average)

\* C14: a step that folds a chunk whose weight is 0 leaves the bandwidth
\* average and its total weight as they were.
C14_ZeroWeightUnchanged ==
    [][\A id \in Ids :
          (/\ Len(folded'[id]) = Len(folded[id]) + 1
           /\ folded'[id][Len(folded'[id])].weight = F(0)) =>
              BandwidthPair(conn', id) = BandwidthPair(conn, id)]_vars

\* C18: for every rate from 0 to 10^27 the loop of bps_to_string ends with a
\* value under 1000 and an index inside SPEED_SUFFIX, so that the call
\* returns; 0 and 999 get bps, 1000 and 999,999 get Kbps, 10^9 gets Gbps.
C18_SuffixInRange ==
    /\ upload.pc \notin {"panicked", "format"}
    /\ upload.pc = "responded" =>
          LET suffix == upload.text.val.suffix
              scaled == ScaleRate(upload.rate[1], upload.rate[2], 0)
          IN  /\ FLt(scaled[1], F(1000))
              /\ suffix = SPEED_SUFFIX[scaled[2] + 1]
              /\ upload.rate = <<F(0), 0>> => suffix = " bps"
              /\ upload.rate = <<F(999), 0>> => suffix = " bps"
              /\ upload.rate = <<F(1), 1>> => suffix = " Kbps"
              /\ upload.rate = <<<<999999, 1000>>, 1>> => suffix = " Kbps"
              /\ upload.rate = <<F(1), 3>> => suffix = " Gbps"

\* C19: no chunk measured over a duration of zero is folded into a bandwidth
\* average, and no upload measured over a duration of zero gets a rate: what
\* calculate_bps hands to its callers is a finite number.
C19_ZeroDurationGuarded ==
    /\ \A id \in Ids : \A i \in 1..Len(folded[id]) :
          folded[id][i].elapsed # F(0) /\ IsFinite(folded[id][i].speed)
    /\ upload.pc # "idle" => IsFinite(upload.rate[1])

\* C21: a step that enqueues a progress fragment on the channel of a session
\* finds no final-result fragment enqueued there before it.
C21_NoProgressAfterFinal ==
    [][\A id \in Ids :
          (/\ Len(sent'[id]) = Len(sent[id]) + 1
           /\ sent'[id][Len(sent'[id])].kind = "download") =>
              Positions(sent[id], "finish_download") = {}]_vars

\* C22: the size advertised for the next chunk never shrinks from one
\* sequence number to the next and is at most 100,000,000; a request that
\* asks for an advertised size stays inside the pool, and its slice does not
\* panic.
C22_ScheduleWithinPool ==
    /\ \A c \in 0..MaxCounter :
          /\ next_size(c) <= next_size(c + 1)
          /\ next_size(c) <= 100000000
    /\ \A id \in Ids : \A d \in DOMAIN dl[id] :
          /\ dl[id][d].pc # "panicked"
          /\ dl[id][d].pc \in {"body", "end_stream"} =>
                dl[id][d].size <= RANDOM_BITMAP_len

\* The request that follows the fragment of chunk 9 got its slice of
\* 100,000,000 bytes.
C22_Witness ==
    /\ dl["a"][1].pc = "end_stream"
    /\ dl["a"][1].counter = 10
    /\ dl["a"][1].size = 100000000

\* Task d of id makes its call of try_send in this step.
TrySendCall(id, d) == dl[id][d].pc = "try_send" /\ dl'[id][d].pc # "try_send"

\* C23: in main.rs a dropped DownloadBody goes on to try_send only when its
\* lookup finds the session in Downloading, and otherwise ends without a
\* push; the try_send waits for nothing (a task at it can always take its
\* step) and ends the task; on a full channel the fragment is dropped and the
\* queue, the messages enqueued and the registry stay as they are; with a free
\* slot the fragment is enqueued.
C23_TrySendDropsWhenFull ==
    /\ [][\A id \in Ids, d \in DownTasks :
             /\ (dl[id][d].pc = "body" /\ dl'[id][d].pc # "body") =>
                   /\ dl'[id][d].pc = "try_send" <=> IsDownloading(conn, id)
                   /\ UNCHANGED <<conn, queue, sent>>
             /\ TrySendCall(id, d) =>
                   /\ dl'[id][d].pc = "done"
                   /\ conn' = conn
                   /\ TrySendResult(id) = "Full" => UNCHANGED <<queue, sent>>
                   /\ TrySendResult(id) = "Ok" =>
                          queue'[id] = Append(queue[id], MainDownloadHtml(dl[id][d].counter))]_vars
    /\ [](\A id \in Ids :
             /\ Len(queue[id]) + reserved[id] <= Capacity
             /\ \A d \in DownTasks : dl[id][d].pc = "try_send" => ENABLED MainDropTrySend(id, d))

\* A try_send found the channel full, with the receiver alive, and its
\* fragment is not in the channel: whatever was enqueued came from index and
\* start.
C23_Witness ==
    /\ dl["a"][1].pc = "done"
    /\ dl["a"][1].snap = Some("Full")
    /\ IsDownloading(conn, "a")
    /\ body["a"] = "open"
    /\ Len(queue["a"]) = Capacity
    /\ Positions(sent["a"], "download") = {}

====
